---- MODULE Spec2Model ----
(***************************************************************************)
(* Model of codex_server.py: the two MCP tools codex_agent and             *)
(* codex_interactive, the helper run_codex and _optimize_prompt_for_task.  *)
(*                                                                         *)
(* Text is modelled as a sequence of atoms.  An atom is a TLA+ string that *)
(* stands for a fixed piece of text; concatenation of text is \o.  Text    *)
(* that the code inspects character by character (image references, the    *)
(* child's standard output) is spelled one character per atom; a longer    *)
(* atom ("--model", a prefix sentence) is a literal no operation looks     *)
(* into.  The empty text <<>> stands for both "" and None, which the       *)
(* code's truthiness tests (if model:, if not prompt:) treat alike.        *)
(***************************************************************************)
EXTENDS Integers, Sequences, FiniteSets, TLC

\* Largest number of tool calls in one behaviour.
MaxRequests == 2

(***************************************************************************)
(* Text helpers: the str methods the code uses.                            *)
(***************************************************************************)

\* str.startswith
StartsWith(s, p) == Len(s) >= Len(p) /\ SubSeq(s, 1, Len(p)) = p

\* "needle in s" for text
Contains(s, needle) ==
    \E i \in 1..(Len(s) - Len(needle) + 1) :
        SubSeq(s, i, i + Len(needle) - 1) = needle

\* index of the first atom of s equal to a, 0 when there is none
FirstIndex(s, a) ==
    IF \E i \in 1..Len(s) : s[i] = a
    THEN CHOOSE i \in 1..Len(s) : s[i] = a /\ \A j \in 1..(i - 1) : s[j] # a
    ELSE 0

\* s.split(",", 1) when s holds a comma: <<header, encoded>>
SplitFirstComma(s) ==
    LET i == FirstIndex(s, ",")
    IN  <<SubSeq(s, 1, i - 1), SubSeq(s, i + 1, Len(s))>>

Whitespace == {" ", "\n", "\t", "\r"}

RECURSIVE LStrip(_)
LStrip(s) == IF s # <<>> /\ Head(s) \in Whitespace THEN LStrip(Tail(s)) ELSE s

RECURSIVE RStrip(_)
RStrip(s) ==
    IF s # <<>> /\ s[Len(s)] \in Whitespace
    THEN RStrip(SubSeq(s, 1, Len(s) - 1))
    ELSE s

\* str.strip()
Strip(s) == RStrip(LStrip(s))

\* sep.join(parts) for a list of texts
RECURSIVE Join(_, _)
Join(sep, parts) ==
    IF parts = <<>> THEN <<>>
    ELSE IF Len(parts) = 1 THEN parts[1]
    ELSE parts[1] \o sep \o Join(sep, Tail(parts))

Digits == <<"0", "1", "2", "3", "4", "5", "6", "7", "8", "9">>

\* "%d" % n for n >= 0
RECURSIVE IntText(_)
IntText(n) ==
    IF n < 10 THEN <<Digits[n + 1]>>
    ELSE IntText(n \div 10) \o <<Digits[(n % 10) + 1]>>

\* repr of a str whose atoms hold no quote and no backslash
ReprStr(s) ==
    <<"'">> \o [i \in 1..Len(s) |-> IF s[i] = "\n" THEN "\\n" ELSE s[i]] \o <<"'">>

\* "%s" % cmd for a list of str
ReprList(cmd) ==
    <<"[">> \o Join(<<", ">>, [i \in 1..Len(cmd) |-> ReprStr(cmd[i])]) \o <<"]">>

(***************************************************************************)
(* Bytes: str.encode() and base64.b64decode.                               *)
(***************************************************************************)

\* the code point of a one-character atom (the characters image references use)
Ord(c) ==
    CASE c = "+" -> 43  [] c = "," -> 44  [] c = "/" -> 47
      [] c = "4" -> 52  [] c = "6" -> 54  [] c = ":" -> 58
      [] c = ";" -> 59  [] c = "=" -> 61  [] c = "D" -> 68
      [] c = "J" -> 74  [] c = "Q" -> 81  [] c = "U" -> 85
      [] c = "a" -> 97  [] c = "b" -> 98  [] c = "d" -> 100
      [] c = "e" -> 101 [] c = "h" -> 104 [] c = "i" -> 105
      [] c = "s" -> 115 [] c = "t" -> 116

\* str.encode(): the UTF-8 bytes of ASCII text
Encode(s) == [i \in 1..Len(s) |-> Ord(s[i])]

\* the 6-bit value of a base64 alphabet character, 64 for any other character
B64Value(c) ==
    LET o == Ord(c)
    IN  IF o >= 65 /\ o <= 90 THEN o - 65
        ELSE IF o >= 97 /\ o <= 122 THEN o - 71
        ELSE IF o >= 48 /\ o <= 57 THEN o + 4
        ELSE IF o = 43 THEN 62
        ELSE IF o = 47 THEN 63
        ELSE 64

\* binascii.a2b_base64 in its default non-strict mode, one character a step:
\* quad is the position in the current group of four, left the bits carried
\* over, pads the run of "=" seen, out the bytes decoded so far.
RECURSIVE A2bBase64(_, _, _, _, _)
A2bBase64(s, quad, left, pads, out) ==
    IF s = <<>>
    THEN [ok |-> quad = 0, data |-> out]
    ELSE LET c == Head(s)
             v == B64Value(c)
         IN  IF c = "="
             THEN IF quad >= 2 /\ quad + pads + 1 >= 4
                  THEN [ok |-> TRUE, data |-> out]
                  ELSE A2bBase64(Tail(s), quad, left,
                                 IF quad >= 2 THEN pads + 1 ELSE pads, out)
             ELSE IF v = 64
             THEN A2bBase64(Tail(s), quad, left, pads, out)
             ELSE IF quad = 0
             THEN A2bBase64(Tail(s), 1, v, 0, out)
             ELSE IF quad = 1
             THEN A2bBase64(Tail(s), 2, v % 16, 0,
                            Append(out, left * 4 + (v \div 16)))
             ELSE IF quad = 2
             THEN A2bBase64(Tail(s), 3, v % 4, 0,
                            Append(out, left * 16 + (v \div 4)))
             ELSE A2bBase64(Tail(s), 0, 0, 0, Append(out, left * 64 + v))

\* base64.b64decode(encoded): ok is FALSE where it raises binascii.Error
B64Decode(encoded) == A2bBase64(encoded, 0, 0, 0, <<>>)

(***************************************************************************)
(* Inputs.  A request is the keyword arguments of a tool call.             *)
(***************************************************************************)

DataPrefix == <<"d", "a", "t", "a", ":">>
Base64Marker == <<"b", "a", "s", "e", "6", "4", ",">>

\* an existing file path (the docstring's example)
PathRef == <<"design.png">>
\* data:;base64,QUJD  -- a payload that decodes to the bytes of "ABC"
B64Ref == DataPrefix \o <<";">> \o Base64Marker \o <<"Q", "U", "J", "D">>
\* data:;base64,QUJ  -- a payload b64decode rejects (incorrect padding)
BadB64Ref == DataPrefix \o <<";">> \o Base64Marker \o <<"Q", "U", "J">>
\* data:,hi  -- a data URI without the base64 marker
RawRef == DataPrefix \o <<",", "h", "i">>

\* the images lists a request can carry: none, each kind alone, the same data
\* URI twice, a path between data URIs, a rejected payload before other entries
ImageLists ==
    { <<>>,
      <<PathRef>>, <<B64Ref>>, <<RawRef>>, <<BadB64Ref>>,
      <<B64Ref, B64Ref>>,
      <<RawRef, PathRef, B64Ref>>,
      <<B64Ref, BadB64Ref, RawRef>> }

Prompts == {<<>>, <<"hi">>}
Models == {<<>>, <<"o4-mini">>}
Providers == {<<>>, <<"openai">>}
ApprovalModes == {<<>>, <<"suggest">>, <<"auto-edit">>, <<"full-auto">>}
TaskTypes == {"general", "debugging", "code-generation", "unlisted"}
AdditionalArgs == {<<>>, <<<<"--approval-mode">>, <<"full-auto">>>>}

AgentRequests ==
    [prompt : Prompts, model : Models, approval_mode : ApprovalModes,
     images : ImageLists, provider : Providers,
     json_output : BOOLEAN, task_type : TaskTypes,
     additional_args : AdditionalArgs]

InteractiveRequests ==
    [initial_prompt : Prompts, model : Models, approval_mode : ApprovalModes,
     provider : Providers]

\* what the child process can do once started
ExitCodes == {0, 3}
Stdouts == {<<>>, <<" ", "o", "k", "\n">>}
Stderrs == {<<"w", "a", "r", "n", "\n">>}
\* str(e) of the OSError subprocess.run raises when the child cannot be started
LaunchErrors == {<<"[Errno 2] No such file or directory: 'codex'">>}

(***************************************************************************)
(* The functions of codex_server.py.                                       *)
(***************************************************************************)

\* the dictionary of _optimize_prompt_for_task
task_prefixes ==
    [t \in {"code-generation", "code-explanation", "debugging", "refactoring",
            "testing", "security", "documentation", "general"} |->
        CASE t = "code-generation" ->
               <<"Generate clean, well-documented code for the following task:", "\n", "\n">>
          [] t = "code-explanation" ->
               <<"Provide a detailed explanation of the following code, including what it does, how it works, and any notable patterns:", "\n", "\n">>
          [] t = "debugging" ->
               <<"Analyze the following code/issue for bugs, explain the problems found, and provide fixes:", "\n", "\n">>
          [] t = "refactoring" ->
               <<"Refactor the following code to improve readability, performance, and maintainability:", "\n", "\n">>
          [] t = "testing" ->
               <<"Write comprehensive tests for the following code or fix existing test issues:", "\n", "\n">>
          [] t = "security" ->
               <<"Perform a security analysis of the following code, identify vulnerabilities, and suggest fixes:", "\n", "\n">>
          [] t = "documentation" ->
               <<"Generate or improve documentation for the following code:", "\n", "\n">>
          [] t = "general" -> <<>>]

\* mutant: the prefix lands behind the prompt
_optimize_prompt_appended(prompt, task_type) ==
    prompt \o
        (IF task_type \in DOMAIN task_prefixes THEN task_prefixes[task_type] ELSE <<>>)

\* task_prefixes.get(task_type, "") + prompt
_optimize_prompt_for_task(prompt, task_type) ==
    (IF task_type \in DOMAIN task_prefixes THEN task_prefixes[task_type] ELSE <<>>)
        \o prompt

\* mutant: the check of the prompt is gone
PromptMissingNever(prompt) == FALSE

\* codex_agent: "if not prompt"
PromptMissing(prompt) == prompt = <<>>

MissingPromptResult ==
    [status |-> "error", error |-> <<"Missing required parameter: prompt">>]

\* mutant: the comparison with the default is gone
ApprovalArgsAnyMode(approval_mode) ==
    IF approval_mode # <<>>
    THEN <<<<"--approval-mode">>, approval_mode>>
    ELSE <<>>

\* run_codex: "if approval_mode and approval_mode != 'suggest'"
ApprovalArgs(approval_mode) ==
    IF approval_mode # <<>> /\ approval_mode # <<"suggest">>
    THEN <<<<"--approval-mode">>, approval_mode>>
    ELSE <<>>

\* mutant: --provider is added before --model
OptionArgsSwapped(quiet, json_output, model, provider, approval_mode) ==
    <<<<"codex">>>>
        \o (IF quiet THEN <<<<"--quiet">>>> ELSE <<>>)
        \o (IF json_output THEN <<<<"--json">>>> ELSE <<>>)
        \o (IF provider # <<>> THEN <<<<"--provider">>, provider>> ELSE <<>>)
        \o (IF model # <<>> THEN <<<<"--model">>, model>> ELSE <<>>)
        \o ApprovalArgs(approval_mode)

\* run_codex: the command up to the images
OptionArgs(quiet, json_output, model, provider, approval_mode) ==
    <<<<"codex">>>>
        \o (IF quiet THEN <<<<"--quiet">>>> ELSE <<>>)
        \o (IF json_output THEN <<<<"--json">>>> ELSE <<>>)
        \o (IF model # <<>> THEN <<<<"--model">>, model>> ELSE <<>>)
        \o (IF provider # <<>> THEN <<<<"--provider">>, provider>> ELSE <<>>)
        \o ApprovalArgs(approval_mode)

\* run_codex: the command after the images
TailArgs(additional_args, prompt) == additional_args \o <<prompt>>

\* the name of the n-th temporary file: NamedTemporaryFile(delete=False,
\* suffix=".png") creates a file no existing file has the name of
TmpName(n) == <<"/tmp/tmp">> \o IntText(n) \o <<".png">>

\* "image_path.startswith('data:')"
IsDataUri(image_path) == StartsWith(image_path, DataPrefix)

\* "'base64,' in image_path"
HasBase64Marker(image_path) == Contains(image_path, Base64Marker)

\* "header, encoded = image_path.split(',', 1); base64.b64decode(encoded)"
DecodedImage(image_path) == B64Decode(SplitFirstComma(image_path)[2])

\* mutant: only what follows "data:" is written
RawImageRemainder(image_path) ==
    Encode(SubSeq(image_path, Len(DataPrefix) + 1, Len(image_path)))

\* "temp.write(image_path.encode())"
RawImageBytes(image_path) == Encode(image_path)

\* " ".join(cmd)
CommandLine(cmd) == Join(<<" ">>, cmd)

\* run_codex: the dictionary returned when subprocess.run returns
SuccessResult(cmd, stdout, stderr) ==
    [status |-> "success", output |-> Strip(stdout), stderr |-> stderr,
     command |-> CommandLine(cmd)]

\* run_codex: the dictionary returned on CalledProcessError
CalledProcessErrorResult(cmd, returncode, stdout, stderr) ==
    [status |-> "error",
     error |-> <<"Command '">> \o ReprList(cmd)
                   \o <<"' returned non-zero exit status ">>
                   \o IntText(returncode) \o <<".">>,
     output |-> stdout, stderr |-> stderr, exit_code |-> returncode,
     command |-> CommandLine(cmd)]

\* run_codex: the dictionary returned on any other exception
UnexpectedErrorResult(cmd, message) ==
    [status |-> "error", error |-> message, command |-> CommandLine(cmd)]

\* mutant: check=True is missing, a non-zero exit is not an error
ExecuteResultUnchecked(cmd, returncode, stdout, stderr) ==
    SuccessResult(cmd, stdout, stderr)

\* subprocess.run(cmd, text=True, capture_output=True, check=True) once the
\* child has exited, and the try/except around it
ExecuteResult(cmd, returncode, stdout, stderr) ==
    IF returncode = 0
    THEN SuccessResult(cmd, stdout, stderr)
    ELSE CalledProcessErrorResult(cmd, returncode, stdout, stderr)

\* codex_interactive: the command it reports
InteractiveArgs(initial_prompt, model, provider, approval_mode) ==
    <<<<"codex">>>>
        \o (IF model # <<>> THEN <<<<"--model">>, model>> ELSE <<>>)
        \o (IF provider # <<>> THEN <<<<"--provider">>, provider>> ELSE <<>>)
        \o (IF approval_mode # <<>> /\ approval_mode # <<"suggest">>
            THEN <<<<"--approval-mode">>, approval_mode>>
            ELSE <<>>)
        \o (IF initial_prompt # <<>> THEN <<initial_prompt>> ELSE <<>>)

\* codex_interactive: the dictionary it returns
InteractiveResult(cmd) ==
    [status |-> "info",
     message |-> <<"Interactive Codex session would be started with the following command:">>,
     command |-> CommandLine(cmd),
     note |-> <<"This requires terminal access. For automated tasks, use codex_agent instead.">>,
     instructions |->
        << <<"Run this command in your terminal to start the interactive session">>,
           <<"Type 'exit' or press Ctrl+C to end the session">>,
           <<"Use different approval modes for varying levels of autonomy">> >>]

(***************************************************************************)
(* State.                                                                  *)
(***************************************************************************)

VARIABLES
    pc,               \* where the server is: "idle", or the step of the call in progress
    tool,             \* the tool being served: "none", "codex_agent", "codex_interactive"
    request,          \* the arguments of the call in progress
    optimized_prompt, \* codex_agent's local variable
    cmd,              \* run_codex's local variable: the command built so far
    imageIndex,       \* number of entries of images the loop has gone through
    resolved,         \* the values image_path had at "cmd.extend(['--image', image_path])"
    child,            \* how the call of subprocess.run ended
    result,           \* the dictionary returned to the caller
    raised,           \* the exception that left the tool, "none" if none did
    files,            \* the temporary files that exist: files[n] is the content of TmpName(n)
    spawnCount,       \* calls of subprocess.run made since the server started
    spawned,          \* calls of subprocess.run made by the call in progress
    requestCount,     \* tool calls accepted so far
    filesBefore,      \* history: files as they were when the call in progress began
    dataUriCount      \* history: "data:" entries of the codex_agent calls that passed validation

vars == <<pc, tool, request, optimized_prompt, cmd, imageIndex, resolved, child,
          result, raised, files, spawnCount, spawned, requestCount, filesBefore,
          dataUriCount>>

NoRequest == [prompt |-> <<>>]
NoResult == [status |-> "none"]
NoChild == [kind |-> "none"]

\* number of entries of images that start with "data:"
DataUris(images) == Cardinality({i \in 1..Len(images) : IsDataUri(images[i])})

Init ==
    /\ pc = "idle"
    /\ tool = "none"
    /\ request = NoRequest
    /\ optimized_prompt = <<>>
    /\ cmd = <<>>
    /\ imageIndex = 0
    /\ resolved = <<>>
    /\ child = NoChild
    /\ result = NoResult
    /\ raised = "none"
    /\ files = <<>>
    /\ spawnCount = 0
    /\ spawned = 0
    /\ requestCount = 0
    /\ filesBefore = <<>>
    /\ dataUriCount = 0

(***************************************************************************)
(* codex_agent and run_codex, a statement group a step.                    *)
(***************************************************************************)

\* the MCP layer calls codex_agent(**req)
CallCodexAgent ==
    /\ pc = "idle"
    /\ requestCount < MaxRequests
    /\ \E req \in AgentRequests : request' = req
    /\ tool' = "codex_agent"
    /\ pc' = "validate"
    /\ requestCount' = requestCount + 1
    /\ filesBefore' = files
    /\ UNCHANGED <<optimized_prompt, cmd, imageIndex, resolved, child, result,
                   raised, files, spawnCount, spawned, dataUriCount>>

\* "if not prompt: return {...}"
Validate ==
    /\ pc = "validate"
    /\ IF PromptMissing(request.prompt)
       THEN /\ result' = MissingPromptResult
            /\ pc' = "returned"
            /\ UNCHANGED dataUriCount
       ELSE /\ pc' = "optimize"
            /\ dataUriCount' = dataUriCount + DataUris(request.images)
            /\ UNCHANGED result
    /\ UNCHANGED <<tool, request, optimized_prompt, cmd, imageIndex, resolved,
                   child, raised, files, spawnCount, spawned, requestCount,
                   filesBefore>>

\* "optimized_prompt = _optimize_prompt_for_task(prompt, task_type)"
Optimize ==
    /\ pc = "optimize"
    /\ optimized_prompt' = _optimize_prompt_for_task(request.prompt, request.task_type)
    /\ pc' = "options"
    /\ UNCHANGED <<tool, request, cmd, imageIndex, resolved, child, result,
                   raised, files, spawnCount, spawned, requestCount, filesBefore,
                   dataUriCount>>

\* run_codex, from cmd = ["codex"] to the approval mode
BuildOptions ==
    /\ pc = "options"
    /\ cmd' = OptionArgs(TRUE, request.json_output, request.model,
                         request.provider, request.approval_mode)
    /\ pc' = "images"
    /\ UNCHANGED <<tool, request, optimized_prompt, imageIndex, resolved, child,
                   result, raised, files, spawnCount, spawned, requestCount,
                   filesBefore, dataUriCount>>

\* one turn of "for image_path in images": either b64decode raises and the
\* exception leaves run_codex and codex_agent (the loop is outside the try),
\* or the --image pair is appended.  The file system is taken to let
\* NamedTemporaryFile create its file.
ResolveImage ==
    /\ pc = "images"
    /\ imageIndex < Len(request.images)
    /\ LET image_path == request.images[imageIndex + 1]
           temp_name == TmpName(Len(files) + 1)
       IN  IF ~IsDataUri(image_path)
           THEN /\ cmd' = cmd \o <<<<"--image">>, image_path>>
                /\ resolved' = Append(resolved, image_path)
                /\ imageIndex' = imageIndex + 1
                /\ UNCHANGED <<pc, raised, files>>
           ELSE \* NamedTemporaryFile creates the file, empty; then the branch
                \* on the marker
                IF HasBase64Marker(image_path)
                THEN IF DecodedImage(image_path).ok
                     THEN /\ files' = Append(files, DecodedImage(image_path).data)
                          /\ cmd' = cmd \o <<<<"--image">>, temp_name>>
                          /\ resolved' = Append(resolved, temp_name)
                          /\ imageIndex' = imageIndex + 1
                          /\ UNCHANGED <<pc, raised>>
                     ELSE \* b64decode raises before temp.write
                          /\ files' = Append(files, <<>>)
                          /\ raised' = "binascii.Error"
                          /\ pc' = "raised"
                          /\ UNCHANGED <<cmd, resolved, imageIndex>>
                ELSE /\ files' = Append(files, RawImageBytes(image_path))
                     /\ cmd' = cmd \o <<<<"--image">>, temp_name>>
                     /\ resolved' = Append(resolved, temp_name)
                     /\ imageIndex' = imageIndex + 1
                     /\ UNCHANGED <<pc, raised>>
    /\ UNCHANGED <<tool, request, optimized_prompt, child, result, spawnCount,
                   spawned, requestCount, filesBefore, dataUriCount>>

\* run_codex, "if additional_args: cmd.extend(additional_args)" and
\* "cmd.append(prompt)"
BuildTail ==
    /\ pc = "images"
    /\ imageIndex = Len(request.images)
    /\ cmd' = cmd \o TailArgs(request.additional_args, optimized_prompt)
    /\ pc' = "run"
    /\ UNCHANGED <<tool, request, optimized_prompt, imageIndex, resolved, child,
                   result, raised, files, spawnCount, spawned, requestCount,
                   filesBefore, dataUriCount>>

\* mutant: a failed run is tried again
AfterRunRetry(res) == IF res.status = "error" THEN "run" ELSE "returned"

\* where run_codex goes with the dictionary res it has built: every branch of
\* the try statement is a return
AfterRun(res) == "returned"

\* subprocess.run is called; the child cannot be started and the exception
\* is caught by "except Exception"
LaunchFails ==
    /\ pc = "run"
    /\ spawnCount' = spawnCount + 1
    /\ spawned' = spawned + 1
    /\ \E message \in LaunchErrors :
          /\ child' = [kind |-> "not started", message |-> message]
          /\ result' = UnexpectedErrorResult(cmd, message)
    /\ pc' = AfterRun(result')
    /\ UNCHANGED <<tool, request, optimized_prompt, cmd, imageIndex, resolved,
                   raised, files, requestCount, filesBefore, dataUriCount>>

\* subprocess.run is called and the child starts; run_codex blocks on it
Spawn ==
    /\ pc = "run"
    /\ spawnCount' = spawnCount + 1
    /\ spawned' = spawned + 1
    /\ child' = [kind |-> "running"]
    /\ pc' = "waiting"
    /\ UNCHANGED <<tool, request, optimized_prompt, cmd, imageIndex, resolved,
                   result, raised, files, requestCount, filesBefore,
                   dataUriCount>>

\* the child exits; subprocess.run returns or raises CalledProcessError
ChildExits ==
    /\ pc = "waiting"
    /\ \E returncode \in ExitCodes, stdout \in Stdouts, stderr \in Stderrs :
          /\ child' = [kind |-> "exited", returncode |-> returncode,
                       stdout |-> stdout, stderr |-> stderr]
          /\ result' = ExecuteResult(cmd, returncode, stdout, stderr)
    /\ pc' = AfterRun(result')
    /\ UNCHANGED <<tool, request, optimized_prompt, cmd, imageIndex, resolved,
                   raised, files, spawnCount, spawned, requestCount, filesBefore,
                   dataUriCount>>

(***************************************************************************)
(* codex_interactive: straight-line code, one step.                        *)
(***************************************************************************)

\* mutant: codex_interactive runs the command it built
CallCodexInteractiveRuns ==
    /\ pc = "idle"
    /\ requestCount < MaxRequests
    /\ \E req \in InteractiveRequests :
          /\ request' = req
          /\ cmd' = InteractiveArgs(req.initial_prompt, req.model, req.provider,
                                    req.approval_mode)
    /\ result' = InteractiveResult(cmd')
    /\ tool' = "codex_interactive"
    /\ pc' = "returned"
    /\ requestCount' = requestCount + 1
    /\ filesBefore' = files
    /\ spawnCount' = spawnCount + 1
    /\ UNCHANGED <<optimized_prompt, imageIndex, resolved, child, raised, files,
                   spawned, dataUriCount>>

CallCodexInteractive ==
    /\ pc = "idle"
    /\ requestCount < MaxRequests
    /\ \E req \in InteractiveRequests :
          /\ request' = req
          /\ cmd' = InteractiveArgs(req.initial_prompt, req.model, req.provider,
                                    req.approval_mode)
    /\ result' = InteractiveResult(cmd')
    /\ tool' = "codex_interactive"
    /\ pc' = "returned"
    /\ requestCount' = requestCount + 1
    /\ filesBefore' = files
    /\ UNCHANGED <<optimized_prompt, imageIndex, resolved, child, raised, files,
                   spawnCount, spawned, dataUriCount>>

\* the MCP layer has the tool's result or exception; the call's locals are gone
Finish ==
    /\ pc \in {"returned", "raised"}
    /\ pc' = "idle"
    /\ tool' = "none"
    /\ request' = NoRequest
    /\ optimized_prompt' = <<>>
    /\ cmd' = <<>>
    /\ imageIndex' = 0
    /\ resolved' = <<>>
    /\ child' = NoChild
    /\ result' = NoResult
    /\ raised' = "none"
    /\ spawned' = 0
    /\ filesBefore' = <<>>
    /\ UNCHANGED <<files, spawnCount, requestCount, dataUriCount>>

Next ==
    \/ CallCodexAgent
    \/ Validate
    \/ Optimize
    \/ BuildOptions
    \/ ResolveImage
    \/ BuildTail
    \/ LaunchFails
    \/ Spawn
    \/ ChildExits
    \/ CallCodexInteractive
    \/ Finish

Spec == Init /\ [][Next]_vars

(***************************************************************************)
(* Properties.                                                             *)
(***************************************************************************)

ApprovalFlag == <<"--approval-mode">>

\* number of elements of the list argv equal to x
Count(argv, x) == Cardinality({i \in 1..Len(argv) : argv[i] = x})

\* the list --image p1 --image p2 ...
RECURSIVE ImagePairs(_)
ImagePairs(paths) ==
    IF paths = <<>> THEN <<>>
    ELSE <<<<"--image">>, Head(paths)>> \o ImagePairs(Tail(paths))

\* a codex_agent call has handed its command to subprocess.run
Handed == tool = "codex_agent" /\ spawned = 1

\* the enumerated argument vector of a codex_agent call, approvalArgs being
\* the part for the approval mode
EnumeratedArgv(approvalArgs) ==
    <<<<"codex">>, <<"--quiet">>>>
        \o (IF request.json_output THEN <<<<"--json">>>> ELSE <<>>)
        \o (IF request.model # <<>> THEN <<<<"--model">>, request.model>> ELSE <<>>)
        \o (IF request.provider # <<>>
            THEN <<<<"--provider">>, request.provider>> ELSE <<>>)
        \o approvalArgs
        \o ImagePairs(resolved)
        \o request.additional_args
        \o <<optimized_prompt>>

\* C1: a codex_agent call with an empty prompt never gets past validation: no
\* subprocess.run during it, and it returns exactly the dictionary with status
\* "error" and error "Missing required parameter: prompt" (no command field),
\* whatever its other arguments are.
C1_EmptyPromptFailsBeforeSpawn ==
    (tool = "codex_agent" /\ request.prompt = <<>>) =>
        /\ spawned = 0
        /\ child = NoChild
        /\ pc \in {"validate", "returned"}
        /\ pc = "returned" =>
              result = [status |-> "error",
                        error |-> <<"Missing required parameter: prompt">>]

C1_Witness ==
    /\ tool = "codex_agent"
    /\ pc = "returned"
    /\ request.prompt = <<>>
    /\ request.images = <<B64Ref>>
    /\ request.model # <<>>
    /\ request.additional_args # <<>>
    /\ spawnCount = 1

\* C2 as stated: the command handed to the child is codex, --quiet, --json iff
\* json_output, --model M if given, --provider P if given, --approval-mode A if
\* A is not "suggest", an --image pair per image in order, the additional
\* arguments, the optimized prompt.
C2_Original ==
    Handed =>
        cmd = EnumeratedArgv(IF request.approval_mode # <<"suggest">>
                             THEN <<ApprovalFlag, request.approval_mode>>
                             ELSE <<>>)

\* C2 amended: as stated, but the --approval-mode pair is there if and only if
\* the approval mode is non-empty and not "suggest"; and there is one resolved
\* path per entry of images.
C2_ArgvAsEnumerated ==
    Handed =>
        /\ cmd = EnumeratedArgv(IF request.approval_mode \notin {<<>>, <<"suggest">>}
                                THEN <<ApprovalFlag, request.approval_mode>>
                                ELSE <<>>)
        /\ Len(resolved) = Len(request.images)

C2_Witness ==
    /\ Handed
    /\ request.json_output
    /\ request.model # <<>>
    /\ request.provider # <<>>
    /\ request.approval_mode = <<"full-auto">>
    /\ request.images = <<RawRef, PathRef, B64Ref>>
    /\ request.additional_args # <<>>
    /\ request.task_type = "debugging"

\* a tool has finished building its command
ArgvBuilt == Handed \/ (tool = "codex_interactive" /\ pc = "returned")

\* the values of the caller that are elements of the built command
SuppliedValues ==
    (IF request.model # <<>> THEN <<request.model>> ELSE <<>>)
        \o (IF request.provider # <<>> THEN <<request.provider>> ELSE <<>>)
        \o (IF tool = "codex_agent"
            THEN resolved \o request.additional_args \o <<optimized_prompt>>
            ELSE IF request.initial_prompt # <<>>
                 THEN <<request.initial_prompt>> ELSE <<>>)

\* number of elements of the built command in front of the approval mode's place
BeforeApproval ==
    1 + (IF tool = "codex_agent" THEN 1 ELSE 0)
      + (IF tool = "codex_agent" /\ request.json_output THEN 1 ELSE 0)
      + (IF request.model # <<>> THEN 2 ELSE 0)
      + (IF request.provider # <<>> THEN 2 ELSE 0)

\* C3 as stated: with approval mode "suggest" the built command holds no
\* "--approval-mode"; with any other approval mode it holds "--approval-mode"
\* immediately followed by the mode.
C3_Original ==
    ArgvBuilt =>
        IF request.approval_mode = <<"suggest">>
        THEN Count(cmd, ApprovalFlag) = 0
        ELSE \E i \in 1..(Len(cmd) - 1) :
                cmd[i] = ApprovalFlag /\ cmd[i + 1] = request.approval_mode

\* C3 amended: the tools add "--approval-mode" themselves exactly when the
\* approval mode is non-empty and not "suggest", once, right after the model
\* and provider options and immediately followed by the mode verbatim; with
\* "suggest" or an empty mode every "--approval-mode" of the command is a value
\* of the caller passed through (an element of additional_args, for one).
C3_ApprovalModeOnlyWhenNotDefault ==
    ArgvBuilt =>
        IF request.approval_mode \in {<<>>, <<"suggest">>}
        THEN Count(cmd, ApprovalFlag) = Count(SuppliedValues, ApprovalFlag)
        ELSE /\ Count(cmd, ApprovalFlag) = Count(SuppliedValues, ApprovalFlag) + 1
             /\ cmd[BeforeApproval + 1] = ApprovalFlag
             /\ cmd[BeforeApproval + 2] = request.approval_mode

C3_Witness ==
    /\ Handed
    /\ request.approval_mode = <<"full-auto">>
    /\ request.provider # <<>>
    /\ Count(cmd, ApprovalFlag) = 2

\* out is raw without its leading and trailing whitespace
IsTrimOf(out, raw) ==
    \E a \in 0..Len(raw) : \E b \in a..Len(raw) :
        /\ out = SubSeq(raw, a + 1, b)
        /\ \A k \in (1..a) \cup ((b + 1)..Len(raw)) : raw[k] \in Whitespace
        /\ out # <<>> => (out[1] \notin Whitespace /\ out[Len(out)] \notin Whitespace)

C5_NoExceptionLeaves ==
    /\ raised = "none"
    /\ pc # "raised"

\* C6: a codex_agent call makes at most one call of subprocess.run, makes it
\* only with a non-empty prompt, the prompt optimized and every image gone
\* through, and once that call is over returns without another one.
C6_SpawnOnceAfterPreparation ==
    tool = "codex_agent" =>
        /\ spawned <= 1
        /\ spawned = 1 =>
              /\ request.prompt # <<>>
              /\ optimized_prompt # <<>>
              /\ imageIndex = Len(request.images)
              /\ Len(resolved) = Len(request.images)
              /\ pc \in {"waiting", "returned"}
        /\ pc = "waiting" => spawned = 1 /\ child.kind = "running"
        /\ (pc = "returned" /\ request.prompt # <<>>) =>
              spawned = 1 /\ child.kind \in {"exited", "not started"}

C6_Witness ==
    /\ tool = "codex_agent"
    /\ pc = "returned"
    /\ spawned = 1
    /\ result.status = "error"
    /\ child.kind = "exited"
    /\ Len(request.images) = 3

C8_OneFilePerDataUri ==
    pc = "idle" => Len(files) = dataUriCount

\* the text of entry after its first comma
AfterFirstComma(entry) == SubSeq(entry, FirstIndex(entry, ",") + 1, Len(entry))

\* the index in files of the file made for the i-th entry of images
FileIndex(i) == Len(filesBefore) + DataUris(SubSeq(request.images, 1, i))

\* the i-th entry of images was resolved to a new temporary file with this
\* content, and its --image pair is in the command
ResolvedToNewFile(i, content) ==
    LET k == FileIndex(i)
    IN  /\ k > Len(filesBefore)
        /\ k <= Len(files)
        /\ files[k] = content
        /\ i <= Len(resolved)
        /\ resolved[i] = TmpName(k)
        /\ \A j \in 1..Len(resolved) : resolved[j] = resolved[i] => j = i
        /\ \E j \in 1..(Len(cmd) - 1) :
              cmd[j] = <<"--image">> /\ cmd[j + 1] = resolved[i]

\* the i-th entry of images was passed on as it is, without a file of its own
PassedUnchanged(i) ==
    /\ i <= Len(resolved)
    /\ resolved[i] = request.images[i]
    /\ \E j \in 1..(Len(cmd) - 1) :
          cmd[j] = <<"--image">> /\ cmd[j + 1] = request.images[i]

\* the entries of images the loop has taken up: those resolved, and the one b64decode rejected
TakenUp ==
    1..(Len(resolved) + (IF raised = "binascii.Error" THEN 1 ELSE 0))

C10_PrefixThenPrompt ==
    (tool = "codex_agent" /\ pc \in {"options", "images", "run", "waiting"}) =>
        LET n == Len(optimized_prompt) - Len(request.prompt)
            prefix == SubSeq(optimized_prompt, 1, n)
        IN  /\ n >= 0
            /\ SubSeq(optimized_prompt, n + 1, Len(optimized_prompt)) = request.prompt
            /\ prefix =
                 CASE request.task_type = "debugging" ->
                        <<"Analyze the following code/issue for bugs, explain the problems found, and provide fixes:", "\n", "\n">>
                   [] request.task_type = "code-generation" ->
                        <<"Generate clean, well-documented code for the following task:", "\n", "\n">>
                   [] OTHER -> <<>>
            /\ request.task_type \in {"general", "unlisted"} =>
                  optimized_prompt = request.prompt

C10_Witness ==
    /\ tool = "codex_agent"
    /\ pc = "waiting"
    /\ request.task_type = "debugging"
    /\ Len(optimized_prompt) > Len(request.prompt)
    /\ cmd[Len(cmd)] = optimized_prompt

====
